---- MODULE Spec2Model ----
(***************************************************************************)
(* A model of the ukat mapping core:                                       *)
(*   - ukat/mapping/t2.py  : class T2 (mask building, mode resolution,     *)
(*     sequential and process-pool voxel fitting, per-voxel fit policy);   *)
(*   - ukat/mapping/b0.py  : class B0 (two-echo field map);                *)
(*   - methods/tools.py    : convert_to_pi_range.                          *)
(*                                                                         *)
(* Arrays are flattened voxel sequences indexed from 1 (numpy's flattened  *)
(* index i is position i+1 here).  Real numbers are fixed point: phases    *)
(* in milliradians, echo times in milliseconds, field maps in hertz.       *)
(***************************************************************************)
EXTENDS Integers, Sequences, FiniteSets, TLC

\* ------------------------------------------------------------------ bounds
\* Largest number of voxels of the small T2 arrays that are enumerated in full.
MaxVox == 2
\* Largest number of voxels of a B0 phase volume.
MaxPhaseVox == 2
\* Longest raw array handed to convert_to_pi_range alone.
MaxRawLen == 3

\* ------------------------------------------------------- program constants
\* t2.py:75   if self.n_vox > 20
AutoThreshold == 20
\* t2.py:137  bounds = ([0, 0], [700, 1000000])
UpperBoundT2 == 700

\* tools.py:26  np.pi, in milliradians
Pi == 3142
\* tools.py:23  the 3.2 margin, in milliradians
Margin == 3200
\* b0.py:79    echo times are milliseconds, delta_te is seconds (* 0.001);
\*             delta_te is held in units of 0.0001 s: 1 ms * 0.001 is 10 units
MsToSeconds == 10
\* Field maps are held in hertz: mrad / (mrad * 0.0001 s) is 10^4 Hz.
HzScale == 100 * 100

\* A sample is a finite number or NaN.
Num(v) == [nan |-> FALSE, val |-> v]
NaN == [nan |-> TRUE, val |-> 0]

\* An array that has not been created (Python's None, or an unset attribute).
NoArray == <<>>

\* --------------------------------------------------------------- helpers
RECURSIVE SeqSum(_)
\* np.sum over the time axis: a NaN sample makes the sum NaN.
SeqSum(s) ==
    IF s = <<>> THEN Num(0)
    ELSE LET rest == SeqSum(Tail(s))
         IN  IF Head(s).nan \/ rest.nan THEN NaN
             ELSE Num(Head(s).val + rest.val)

\* np.isnan
IsNan(x) == x.nan

\* np.sqrt on the variances the optimizer table holds (perfect squares).
Sqrt(x) == CHOOSE r \in 0..x : r * r = x

\* np.absolute
Abs(x) == IF x < 0 THEN -x ELSE x

\* Fixed-point division, rounding toward zero
Quot(a, b) == IF (a < 0) = (b < 0) THEN Abs(a) \div Abs(b)
              ELSE -(Abs(a) \div Abs(b))

\* np.amax, np.amin of a non-empty array
Amax(a) == CHOOSE m \in {a[i] : i \in 1..Len(a)} :
               \A i \in 1..Len(a) : a[i] <= m
Amin(a) == CHOOSE m \in {a[i] : i \in 1..Len(a)} :
               \A i \in 1..Len(a) : a[i] >= m

\* np.diag of a 2x2 matrix
Diag(m) == <<m[1][1], m[2][2]>>

\* ------------------------------------------------- the per-voxel fit (T2)
\* Voxel signals (two echoes).  scipy's curve_fit is outside the repository;
\* it is a deterministic function of the signal, given here as a table of
\* its answers on the signals the model uses.
SigA    == <<Num(40), Num(20)>>
SigB    == <<Num(90), Num(80)>>
SigFlat == <<Num(7), Num(7)>>
SigRise == <<Num(1), Num(90)>>
SigNaN  == <<NaN, Num(20)>>
Signals == {SigA, SigB, SigFlat, SigRise, SigNaN}

Converged(t2, m0, v1, v2) ==
    [kind |-> "ok", popt |-> <<t2, m0>>, pcov |-> <<<<v1, 0>>, <<0, v2>>>>]
RaisesRuntimeError == [kind |-> "RuntimeError"]
RaisesValueError   == [kind |-> "ValueError"]

\* curve_fit(two_param_eq, te, sig, p0=initial_guess, bounds=bounds)
curve_fit(sig) ==
    CASE IsNan(SeqSum(sig)) -> RaisesValueError   \* check_finite rejects NaN
      [] sig = SigA         -> Converged(14, 108, 4, 9)
      [] sig = SigB         -> Converged(85, 101, 1, 16)
      [] sig = SigFlat      -> Converged(UpperBoundT2, 7, 0, 0)
      [] sig = SigRise      -> RaisesRuntimeError
      [] OTHER              -> RaisesRuntimeError

FitResult(t2, t2_err, m0, m0_err) ==
    [t2 |-> t2, t2_err |-> t2_err, m0 |-> m0, m0_err |-> m0_err]

ZeroFit == FitResult(0, 0, 0, 0)

\* A mutant of FitFromOptimizer: the rejection test is "<=", so a fit at
\* exactly upper_bound - 1 is accepted.
FitFromOptimizerLeq(r) ==
    IF r.kind = "ValueError" THEN [raised |-> "ValueError"]
    ELSE LET popt == IF r.kind = "RuntimeError" THEN <<0, 0>> ELSE r.popt
             pcov == IF r.kind = "RuntimeError"
                     THEN <<<<0, 0>>, <<0, 0>>>> ELSE r.pcov
         IN  IF popt[1] <= UpperBoundT2 - 1
             THEN FitResult(popt[1], Sqrt(Diag(pcov)[1]),
                            popt[2], Sqrt(Diag(pcov)[2]))
             ELSE ZeroFit

\* T2.__fit_signal__ after the optimizer has answered r: RuntimeError is
\* caught and replaced by zero popt/pcov, any other exception propagates.
FitFromOptimizer(r) ==
    IF r.kind = "ValueError" THEN [raised |-> "ValueError"]
    ELSE LET popt == IF r.kind = "RuntimeError" THEN <<0, 0>> ELSE r.popt
             pcov == IF r.kind = "RuntimeError"
                     THEN <<<<0, 0>>, <<0, 0>>>> ELSE r.pcov
         IN  IF popt[1] < UpperBoundT2 - 1
             THEN FitResult(popt[1], Sqrt(Diag(pcov)[1]),
                            popt[2], Sqrt(Diag(pcov)[2]))
             ELSE ZeroFit

\* T2.__fit_signal__(sig, te)
fit_signal(sig) == FitFromOptimizer(curve_fit(sig))

Raised(res) == "raised" \in DOMAIN res

\* ------------------------------------------------------------ T2: state
VARIABLES
    pixel_array,      \* T2 input: one signal (sample tuple) per flattened voxel
    echo_list,        \* T2 input: the echo times
    mask_arg,         \* T2 input: the mask argument's value at the call (NoArray: None)
    multithread_arg,  \* T2 input: "True", "False", "auto" or another value
    caller_mask,      \* the caller's mask array object (NoArray when none was passed)
    self_mask,        \* self.mask
    self_multithread, \* self.multithread: "unset", "True" or "False"
    maps,             \* the four local arrays of __fit__
    self_maps,        \* self.t2_map, self.t2_err, self.m0_map, self.m0_err
    idx,              \* idx of __fit__: [ndim, vals]
    pc,               \* where the constructor is
    k,                \* position of the running for loop in idx / futures
    futures,          \* the futures list: [state, result] per submitted task
    completion,       \* task numbers in the order the workers finished them
    results,          \* the results list
    progress,         \* the tqdm bar: [state, total, n, late]
    n_fit,            \* number of __fit_signal__ calls made so far
    exc,              \* the exception the constructor raised ("" when none)
    prev              \* outcome of an earlier construction on the same input

VARIABLES
    b0_pixel_array,   \* B0 input: the phase volumes along the last axis
    b0_echo_list,     \* B0 input: the echo times (ms)
    b0_mask_arg,      \* B0 input: the mask argument (NoArray: None)
    b0_unwrap,        \* B0 input: unwrap
    b0,               \* the B0 object's attributes
    b0_pc,            \* where the B0 constructor is
    b0_exc            \* the exception the B0 constructor raised ("" when none)

VARIABLES
    opt,              \* the optimizer's answer handed to __fit_signal__
    fit_out           \* what __fit_signal__ returned for it

VARIABLES
    raw_array,        \* convert_to_pi_range input: pixel_array
    radians_array,    \* what convert_to_pi_range returned for it
    radians_again,    \* what convert_to_pi_range returned for radians_array
    pi_pc             \* how many times convert_to_pi_range has been applied

pivars == <<raw_array, radians_array, radians_again, pi_pc>>

b0vars == <<b0_pixel_array, b0_echo_list, b0_mask_arg, b0_unwrap, b0, b0_pc,
            b0_exc>>
fitvars == <<opt, fit_out>>

t2vars == <<pixel_array, echo_list, mask_arg, multithread_arg, caller_mask,
            self_mask, self_multithread, maps, self_maps, idx, pc, k, futures,
            completion, results, progress, n_fit, exc, prev>>

NoMaps == [t2_map |-> NoArray, t2_err |-> NoArray,
           m0_map |-> NoArray, m0_err |-> NoArray]
NoProgress == [state |-> "none", total |-> 0, n |-> 0, late |-> 0]
NoIdx == [ndim |-> 1, vals |-> <<>>]
NoOutcome == [kind |-> "none"]

\* pixel_array.shape[-1]
n_te == Len(pixel_array[1])
\* self.n_vox = np.prod(self.shape)
n_vox == Len(pixel_array)

\* --------------------------------------------------- T2.__init__ helpers
\* A mutant of Validate: the echo-count assertion is missing.
ValidateNoEchoCheck(nte, echoes, mt) ==
    IF mt \in {"True", "False", "auto"} THEN "ok" ELSE "multithread"

\* The two assertions opening T2.__init__, in their order.
Validate(nte, echoes, mt) ==
    IF nte # Len(echoes) THEN "echoes"
    ELSE IF mt \in {"True", "False", "auto"} THEN "ok"
    ELSE "multithread"

\* A mutant of BuildMask: the NaN exclusion is missing.
BuildMaskKeepNaN(mask, pix) ==
    IF mask = NoArray THEN [i \in 1..Len(pix) |-> TRUE] ELSE mask

\* self.mask: np.ones when no mask is given, else the caller's array; then
\* self.mask[np.isnan(np.sum(pixel_array, axis=-1))] = False
BuildMask(mask, pix) ==
    LET base == IF mask = NoArray THEN [i \in 1..Len(pix) |-> TRUE] ELSE mask
    IN  [i \in 1..Len(pix) |-> IF IsNan(SeqSum(pix[i])) THEN FALSE ELSE base[i]]

\* if multithread == 'auto': multithread = self.n_vox > 20
ResolveMultithread(mt, nvox) ==
    IF mt = "auto" THEN (IF nvox > AutoThreshold THEN "True" ELSE "False")
    ELSE mt

\* ---------------------------------------------------- T2.__fit__ helpers
\* A mutant of ZeroMap: the map is not zero-filled (np.ones / np.empty).
ZeroMapOnes(n) == [i \in 1..n |-> 1]

\* np.zeros(self.n_vox)
ZeroMap(n) == [i \in 1..n |-> 0]

\* np.argwhere(mask) of a flattened mask: the true positions, ascending
Argwhere(mask) ==
    SelectSeq([i \in 1..Len(mask) |-> i], LAMBDA i : mask[i])

\* .squeeze(): the (n, 1) array becomes (n,), and 0-dimensional when n = 1
Squeeze(a) == [ndim |-> IF Len(a) = 1 THEN 0 ELSE 1, vals |-> a]

\* A mutant of ResultSource: results are taken as tasks complete
\* (as_completed) instead of in submission order.
ResultSourceAsCompleted(j, done) == IF j <= Len(done) THEN done[j] ELSE j

\* for future in futures: the j-th result comes from the j-th submitted task
ResultSource(j, done) == j

\* map[idx] = row
Assign(map, ind, row) ==
    [i \in 1..Len(map) |->
        IF \E j \in 1..Len(ind) : ind[j] = i
        THEN row[CHOOSE j \in 1..Len(ind) : ind[j] = i]
        ELSE map[i]]

\* map[ind] = value
AssignAt(map, i, v) == [map EXCEPT ![i] = v]

\* tqdm.update(): a closed bar ignores the update
Update(bar) ==
    IF bar.state = "open" THEN [bar EXCEPT !.n = @ + 1]
    ELSE [bar EXCEPT !.late = @ + 1]

\* leaving "with tqdm(...) as progress"
Close(bar) == IF bar.state = "open" THEN [bar EXCEPT !.state = "closed"] ELSE bar

\* ---------------------------------------------------------- T2: actions
\* What the caller sees once the constructor has ended.
Outcome ==
    IF pc = "done" THEN [kind |-> "maps", maps |-> self_maps]
    ELSE [kind |-> "raised", exc |-> exc]

\* T2.__init__: one of the two assertions fails.
T2Reject ==
    /\ pc = "init"
    /\ Validate(n_te, echo_list, multithread_arg) # "ok"
    /\ pc' = "raised"
    /\ exc' = "AssertionError"
    /\ UNCHANGED <<pixel_array, echo_list, mask_arg, multithread_arg,
                   caller_mask, self_mask, self_multithread, maps, self_maps,
                   idx, k, futures, completion, results, progress, n_fit, prev>>
    /\ UNCHANGED <<b0vars, fitvars, pivars>>

\* T2.__init__ up to the call of __fit__: self.mask is the caller's array
\* itself when one is given, so the NaN exclusion is written into it.
T2Construct ==
    /\ pc = "init"
    /\ Validate(n_te, echo_list, multithread_arg) = "ok"
    /\ self_mask' = BuildMask(caller_mask, pixel_array)
    /\ caller_mask' = IF caller_mask = NoArray THEN NoArray ELSE self_mask'
    /\ self_multithread' = ResolveMultithread(multithread_arg, n_vox)
    /\ pc' = "fit"
    /\ UNCHANGED <<pixel_array, echo_list, mask_arg, multithread_arg, maps,
                   self_maps, idx, k, futures, completion, results, progress,
                   n_fit, exc, prev>>
    /\ UNCHANGED <<b0vars, fitvars, pivars>>

\* __fit__: the zero-filled maps, idx, the pool (parallel) and the bar.
FitBegin ==
    /\ pc = "fit"
    /\ maps' = [t2_map |-> ZeroMap(n_vox), t2_err |-> ZeroMap(n_vox),
                m0_map |-> ZeroMap(n_vox), m0_err |-> ZeroMap(n_vox)]
    /\ idx' = Squeeze(Argwhere(self_mask))
    /\ progress' = [state |-> "open", total |-> Len(idx'.vals), n |-> 0,
                    late |-> 0]
    /\ k' = 1
    /\ pc' = IF self_multithread = "True" THEN "par_for" ELSE "seq_for"
    /\ UNCHANGED <<pixel_array, echo_list, mask_arg, multithread_arg,
                   caller_mask, self_mask, self_multithread, self_maps,
                   futures, completion, results, n_fit, exc, prev>>
    /\ UNCHANGED <<b0vars, fitvars, pivars>>

\* "for ind in idx" over a 0-dimensional idx: TypeError; the with blocks
\* close the bar (and shut the pool down) on the way out.
IterZeroDim ==
    /\ pc \in {"par_for", "seq_for"}
    /\ idx.ndim = 0
    /\ pc' = "raised"
    /\ exc' = "TypeError"
    /\ progress' = Close(progress)
    /\ UNCHANGED <<pixel_array, echo_list, mask_arg, multithread_arg,
                   caller_mask, self_mask, self_multithread, maps, self_maps,
                   idx, k, futures, completion, results, n_fit, prev>>
    /\ UNCHANGED <<b0vars, fitvars, pivars>>

\* pool.submit(self.__fit_signal__, signal[ind, :], self.echo_list)
Submit ==
    /\ pc = "par_for"
    /\ idx.ndim = 1
    /\ k <= Len(idx.vals)
    /\ futures' = Append(futures, [state |-> "pending", cb |-> FALSE,
                                   result |-> ZeroFit])
    /\ pc' = "add_cb"
    /\ UNCHANGED <<pixel_array, echo_list, mask_arg, multithread_arg,
                   caller_mask, self_mask, self_multithread, maps, self_maps,
                   idx, k, completion, results, progress, n_fit, exc, prev>>
    /\ UNCHANGED <<b0vars, fitvars, pivars>>

\* future.add_done_callback(lambda p: progress.update()); futures.append:
\* a future that is already finished runs the callback at once.
AddCallback ==
    /\ pc = "add_cb"
    /\ IF futures[k].state = "finished"
       THEN /\ futures' = [futures EXCEPT ![k].cb = TRUE,
                                          ![k].state = "notified"]
            /\ progress' = Update(progress)
       ELSE /\ futures' = [futures EXCEPT ![k].cb = TRUE]
            /\ UNCHANGED progress
    /\ k' = k + 1
    /\ pc' = "par_for"
    /\ UNCHANGED <<pixel_array, echo_list, mask_arg, multithread_arg,
                   caller_mask, self_mask, self_multithread, maps, self_maps,
                   idx, completion, results, n_fit, exc, prev>>
    /\ UNCHANGED <<b0vars, fitvars, pivars>>

\* The submission loop ends; "for future in futures" starts.
SubmitEnd ==
    /\ pc = "par_for"
    /\ idx.ndim = 1
    /\ k > Len(idx.vals)
    /\ pc' = "collect"
    /\ k' = 1
    /\ UNCHANGED <<pixel_array, echo_list, mask_arg, multithread_arg,
                   caller_mask, self_mask, self_multithread, maps, self_maps,
                   idx, futures, completion, results, progress, n_fit, exc,
                   prev>>
    /\ UNCHANGED <<b0vars, fitvars, pivars>>

\* A worker process finishes task j: it ran __fit_signal__ on the copy of
\* voxel idx[j]'s signal it was given, and the future gets the result.
TaskFinish(j) ==
    /\ j \in 1..Len(futures)
    /\ futures[j].state = "pending"
    /\ futures' = [futures EXCEPT
                      ![j].state = "finished",
                      ![j].result = fit_signal(pixel_array[idx.vals[j]])]
    /\ completion' = Append(completion, j)
    /\ n_fit' = n_fit + 1
    /\ UNCHANGED <<pixel_array, echo_list, mask_arg, multithread_arg,
                   caller_mask, self_mask, self_multithread, maps, self_maps,
                   idx, pc, k, results, progress, exc, prev>>
    /\ UNCHANGED <<b0vars, fitvars, pivars>>

\* The executor's thread runs the done callback of finished task j.
TaskCallback(j) ==
    /\ j \in 1..Len(futures)
    /\ futures[j].state = "finished"
    /\ futures[j].cb
    /\ futures' = [futures EXCEPT ![j].state = "notified"]
    /\ progress' = Update(progress)
    /\ UNCHANGED <<pixel_array, echo_list, mask_arg, multithread_arg,
                   caller_mask, self_mask, self_multithread, maps, self_maps,
                   idx, pc, k, completion, results, n_fit, exc, prev>>
    /\ UNCHANGED <<b0vars, fitvars, pivars>>

\* result = future.result(); results.append(result): blocks until the
\* future is finished, and raises what the task raised.
Collect ==
    /\ pc = "collect"
    /\ k <= Len(futures)
    /\ LET f == futures[ResultSource(k, completion)]
       IN  /\ f.state \in {"finished", "notified"}
           /\ IF Raised(f.result)
              THEN /\ pc' = "raised"
                   /\ exc' = f.result.raised
                   /\ progress' = Close(progress)
                   /\ UNCHANGED <<results, k>>
              ELSE /\ results' = Append(results, f.result)
                   /\ k' = k + 1
                   /\ UNCHANGED <<pc, exc, progress>>
    /\ UNCHANGED <<pixel_array, echo_list, mask_arg, multithread_arg,
                   caller_mask, self_mask, self_multithread, maps, self_maps,
                   idx, futures, completion, n_fit, prev>>
    /\ UNCHANGED <<b0vars, fitvars, pivars>>

\* The collection loop ends and "with tqdm" is left: the bar closes.
CollectEnd ==
    /\ pc = "collect"
    /\ k > Len(futures)
    /\ progress' = Close(progress)
    /\ pc' = "shutdown"
    /\ UNCHANGED <<pixel_array, echo_list, mask_arg, multithread_arg,
                   caller_mask, self_mask, self_multithread, maps, self_maps,
                   idx, k, futures, completion, results, n_fit, exc, prev>>
    /\ UNCHANGED <<b0vars, fitvars, pivars>>

\* Every callback has run once the pool's with block has been left.
PoolIsDown == \A j \in 1..Len(futures) : futures[j].state = "notified"

\* zip(*results): the four rows of the results, none for an empty list
Rows(res) ==
    IF res = <<>> THEN <<>>
    ELSE << [j \in 1..Len(res) |-> res[j].t2],
            [j \in 1..Len(res) |-> res[j].t2_err],
            [j \in 1..Len(res) |-> res[j].m0],
            [j \in 1..Len(res) |-> res[j].m0_err] >>

\* The pool is shut down; the four-way unpacking of an empty list of rows
\* raises ValueError.
ScatterRaise ==
    /\ pc = "shutdown"
    /\ PoolIsDown
    /\ Len(Rows(results)) # 4
    /\ pc' = "raised"
    /\ exc' = "ValueError"
    /\ UNCHANGED <<pixel_array, echo_list, mask_arg, multithread_arg,
                   caller_mask, self_mask, self_multithread, maps, self_maps,
                   idx, k, futures, completion, results, progress, n_fit,
                   prev>>
    /\ UNCHANGED <<b0vars, fitvars, pivars>>

\* The pool is shut down; t2_map[idx], t2_err[idx], m0_map[idx],
\* m0_err[idx] = rows; the maps are reshaped, returned and stored.
ScatterReturn ==
    /\ pc = "shutdown"
    /\ PoolIsDown
    /\ Len(Rows(results)) = 4
    /\ LET rows == Rows(results)
       IN  maps' = [t2_map |-> Assign(maps.t2_map, idx.vals, rows[1]),
                    t2_err |-> Assign(maps.t2_err, idx.vals, rows[2]),
                    m0_map |-> Assign(maps.m0_map, idx.vals, rows[3]),
                    m0_err |-> Assign(maps.m0_err, idx.vals, rows[4])]
    /\ self_maps' = maps'
    /\ pc' = "done"
    /\ UNCHANGED <<pixel_array, echo_list, mask_arg, multithread_arg,
                   caller_mask, self_mask, self_multithread, idx, k, futures,
                   completion, results, progress, n_fit, exc, prev>>
    /\ UNCHANGED <<b0vars, fitvars, pivars>>

\* One turn of the single-threaded loop: fit voxel idx[k], write the four
\* values at idx[k], progress.update(1).
SeqStep ==
    /\ pc = "seq_for"
    /\ idx.ndim = 1
    /\ k <= Len(idx.vals)
    /\ LET ind == idx.vals[k]
           r   == fit_signal(pixel_array[ind])
       IN  IF Raised(r)
           THEN /\ pc' = "raised"
                /\ exc' = r.raised
                /\ progress' = Close(progress)
                /\ UNCHANGED <<maps, k>>
           ELSE /\ maps' = [t2_map |-> AssignAt(maps.t2_map, ind, r.t2),
                            t2_err |-> AssignAt(maps.t2_err, ind, r.t2_err),
                            m0_map |-> AssignAt(maps.m0_map, ind, r.m0),
                            m0_err |-> AssignAt(maps.m0_err, ind, r.m0_err)]
                /\ progress' = Update(progress)
                /\ k' = k + 1
                /\ UNCHANGED <<pc, exc>>
    /\ n_fit' = n_fit + 1
    /\ UNCHANGED <<pixel_array, echo_list, mask_arg, multithread_arg,
                   caller_mask, self_mask, self_multithread, self_maps, idx,
                   futures, completion, results, prev>>
    /\ UNCHANGED <<b0vars, fitvars, pivars>>

\* The single-threaded loop ends: the bar closes, the maps are reshaped,
\* returned and stored.
SeqReturn ==
    /\ pc = "seq_for"
    /\ idx.ndim = 1
    /\ k > Len(idx.vals)
    /\ progress' = Close(progress)
    /\ self_maps' = maps
    /\ pc' = "done"
    /\ UNCHANGED <<pixel_array, echo_list, mask_arg, multithread_arg,
                   caller_mask, self_mask, self_multithread, maps, idx, k,
                   futures, completion, results, n_fit, exc, prev>>
    /\ UNCHANGED <<b0vars, fitvars, pivars>>

\* The caller, having seen the outcome of one execution mode, constructs
\* T2 again from the same arrays with the other mode.
Rerun ==
    /\ pc \in {"done", "raised"}
    /\ prev = NoOutcome
    /\ multithread_arg \in {"True", "False"}
    /\ prev' = Outcome
    /\ multithread_arg' = IF multithread_arg = "True" THEN "False" ELSE "True"
    /\ mask_arg' = caller_mask
    /\ self_mask' = NoArray
    /\ self_multithread' = "unset"
    /\ maps' = NoMaps
    /\ self_maps' = NoMaps
    /\ idx' = NoIdx
    /\ pc' = "init"
    /\ k' = 0
    /\ futures' = <<>>
    /\ completion' = <<>>
    /\ results' = <<>>
    /\ progress' = NoProgress
    /\ n_fit' = 0
    /\ exc' = ""
    /\ UNCHANGED <<pixel_array, echo_list, caller_mask>>
    /\ UNCHANGED <<b0vars, fitvars, pivars>>

\* ------------------------------------------------------- phase processing
\* A mutant of convert_to_pi_range: the rescaling onto [-2 pi, 2 pi].
ConvertToTwoPiRange(a) ==
    IF Amax(a) > Margin /\ Amin(a) < -Margin
    THEN [i \in 1..Len(a) |->
             Quot(4 * Pi * (a[i] - Amin(a)), Amax(a) - Amin(a)) - 2 * Pi]
    ELSE a

\* methods/tools.py convert_to_pi_range
convert_to_pi_range(a) ==
    IF Amax(a) > Margin /\ Amin(a) < -Margin
    THEN [i \in 1..Len(a) |->
             Quot(2 * Pi * (a[i] - Amin(a)), Amax(a) - Amin(a)) - Pi]
    ELSE a

\* np.ma.masked_array(data, mask=mask): a true mask entry marks the element
\* as masked (invalid); mask=None masks nothing.
masked_array(data, mask) ==
    [i \in 1..Len(data) |->
        [masked |-> IF mask = NoArray THEN FALSE ELSE mask[i],
         data   |-> data[i]]]

RECURSIVE UnwrapFrom(_, _, _, _)
\* The scan behind unwrap_phase: each valid element is compared with the
\* valid element before it and a jump beyond pi changes the running number
\* of periods; masked elements are passed over and kept.
UnwrapFrom(a, i, last, periods) ==
    IF i > Len(a) THEN <<>>
    ELSE IF a[i].masked
         THEN <<a[i]>> \o UnwrapFrom(a, i + 1, last, periods)
         ELSE LET d == IF last = <<>> THEN 0 ELSE a[i].data - last[1]
                  p == IF d > Pi THEN periods - 1
                       ELSE IF d < -Pi THEN periods + 1
                       ELSE periods
              IN  <<[masked |-> FALSE, data |-> a[i].data + 2 * Pi * p]>>
                  \o UnwrapFrom(a, i + 1, <<a[i].data>>, p)

\* skimage.restoration.unwrap_phase on a masked array (a library outside the
\* repository): the mask is preserved.
unwrap_phase(a) == UnwrapFrom(a, 1, <<>>, 0)

\* A mutant of PhaseDifference: the operands are exchanged.
PhaseDifferenceSwapped(p1, p0) ==
    [i \in 1..Len(p1) |->
        [masked |-> p1[i].masked \/ p0[i].masked,
         data   |-> IF p1[i].masked \/ p0[i].masked THEN p0[i].data
                    ELSE p0[i].data - p1[i].data]]

\* self.phase1 - self.phase0 on masked arrays: an element masked in either
\* operand is masked, and keeps the first operand's data.
PhaseDifference(p1, p0) ==
    [i \in 1..Len(p1) |->
        [masked |-> p1[i].masked \/ p0[i].masked,
         data   |-> IF p1[i].masked \/ p0[i].masked THEN p1[i].data
                    ELSE p1[i].data - p0[i].data]]

\* A mutant of FieldMap: a division by zero leaves the element valid.
FieldMapZeroDivisorValid(pd, dte) ==
    [i \in 1..Len(pd) |->
        IF pd[i].masked
        THEN [masked |-> TRUE, data |-> pd[i].data]
        ELSE [masked |-> FALSE,
              data   |-> IF dte = 0 THEN pd[i].data
                         ELSE Quot(pd[i].data * HzScale, 2 * Pi * dte)]]

\* self.phase_difference / (2 * np.pi * self.delta_te) on a masked array:
\* numpy.ma masks every element of a division by zero.
FieldMap(pd, dte) ==
    [i \in 1..Len(pd) |->
        IF dte = 0 \/ pd[i].masked
        THEN [masked |-> TRUE, data |-> pd[i].data]
        ELSE [masked |-> FALSE,
              data   |-> Quot(pd[i].data * HzScale, 2 * Pi * dte)]]

\* np.absolute(echo1 - echo0) * 0.001
DeltaTe(echo0, echo1) == Abs(echo1 - echo0) * MsToSeconds

\* A mutant of TwoEchoes: more than two echoes are let through.
TwoEchoesOrMore(nte, echoes) == nte = Len(echoes) /\ nte >= 2

\* if self.n_te == len(echo_list) and self.n_te == 2
TwoEchoes(nte, echoes) == nte = Len(echoes) /\ nte = 2


\* ------------------------------------------------- idle parts of the state
\* attrs names the attributes that have been assigned.
B0Unset == [attrs |-> {}, mask |-> NoArray, n_te |-> 0, delta_te |-> 0,
            phase0 |-> NoArray, phase1 |-> NoArray,
            phase_difference |-> NoArray, b0_map |-> NoArray]

B0Idle ==
    /\ b0_pixel_array = <<>>
    /\ b0_echo_list = <<>>
    /\ b0_mask_arg = NoArray
    /\ b0_unwrap = FALSE
    /\ b0 = B0Unset
    /\ b0_pc = "idle"
    /\ b0_exc = ""

FitIdle ==
    /\ opt = RaisesRuntimeError
    /\ fit_out = [kind |-> "idle"]

PiIdle ==
    /\ raw_array = <<>>
    /\ radians_array = <<>>
    /\ radians_again = <<>>
    /\ pi_pc = "idle"

\* ------------------------------------------------------------- T2: inputs
BigShapes == {AutoThreshold, AutoThreshold + 1}

\* Arrays of up to MaxVox voxels with every signal combination.
SmallPixelArrays == UNION {[1..n -> Signals] : n \in 1..MaxVox}

\* Arrays at the auto threshold: the voxels past MaxVox hold a NaN signal.
BigPixelArrays ==
    {[i \in 1..n |-> IF i <= MaxVox THEN h[i] ELSE SigNaN] :
        h \in [1..MaxVox -> Signals], n \in BigShapes}

\* No mask, or a boolean array of the spatial shape (true past MaxVox).
MaskArgs(n) ==
    {NoArray}
    \cup {[i \in 1..n |-> IF i <= MaxVox THEN h[i] ELSE TRUE] :
             h \in [1..MaxVox -> BOOLEAN]}

EchoLists == {<<10, 20>>, <<10, 20, 30>>}

ModeArgs == {"True", "False", "auto", "yes"}

T2Init ==
    /\ \/ pixel_array \in SmallPixelArrays
       \/ pixel_array \in BigPixelArrays
    /\ echo_list \in EchoLists
    /\ mask_arg \in MaskArgs(Len(pixel_array))
    /\ multithread_arg \in ModeArgs
    /\ caller_mask = mask_arg
    /\ self_mask = NoArray
    /\ self_multithread = "unset"
    /\ maps = NoMaps
    /\ self_maps = NoMaps
    /\ idx = NoIdx
    /\ pc = "init"
    /\ k = 0
    /\ futures = <<>>
    /\ completion = <<>>
    /\ results = <<>>
    /\ progress = NoProgress
    /\ n_fit = 0
    /\ exc = ""
    /\ prev = NoOutcome

T2Idle ==
    /\ pixel_array = <<>>
    /\ echo_list = <<>>
    /\ mask_arg = NoArray
    /\ multithread_arg = "auto"
    /\ caller_mask = NoArray
    /\ self_mask = NoArray
    /\ self_multithread = "unset"
    /\ maps = NoMaps
    /\ self_maps = NoMaps
    /\ idx = NoIdx
    /\ pc = "idle"
    /\ k = 0
    /\ futures = <<>>
    /\ completion = <<>>
    /\ results = <<>>
    /\ progress = NoProgress
    /\ n_fit = 0
    /\ exc = ""
    /\ prev = NoOutcome

vars == <<t2vars, b0vars, fitvars, pivars>>

Init == T2Init /\ B0Idle /\ FitIdle /\ PiIdle

Next ==
    \/ T2Reject
    \/ T2Construct
    \/ FitBegin
    \/ IterZeroDim
    \/ Submit
    \/ AddCallback
    \/ SubmitEnd
    \/ \E j \in 1..MaxVox : TaskFinish(j)
    \/ \E j \in 1..MaxVox : TaskCallback(j)
    \/ Collect
    \/ CollectEnd
    \/ ScatterRaise
    \/ ScatterReturn
    \/ SeqStep
    \/ SeqReturn
    \/ Rerun

Spec == Init /\ [][Next]_vars

\* ------------------------------------------------- __fit_signal__ alone
\* What the optimizer can answer: a convergence failure, or a fit with T2
\* below, at and above upper_bound - 1.
OptimizerAnswers ==
    {RaisesRuntimeError}
    \cup {Converged(t2, m0, v1, v2) :
             t2 \in {0, 14, UpperBoundT2 - 2, UpperBoundT2 - 1, UpperBoundT2},
             m0 \in {0, 108, 1000000},
             v1 \in {0, 4, 9}, v2 \in {0, 4, 9}}

FitInit ==
    /\ opt \in OptimizerAnswers
    /\ fit_out = [kind |-> "idle"]

\* One call of __fit_signal__ on a signal the optimizer answers with opt.
FitCall ==
    /\ fit_out.kind = "idle"
    /\ LET r == FitFromOptimizer(opt)
       IN  fit_out' = IF Raised(r) THEN [kind |-> "raised", exc |-> r.raised]
                      ELSE [kind |-> "returned", value |-> r]
    /\ UNCHANGED <<opt, t2vars, b0vars, pivars>>

InitFit == FitInit /\ T2Idle /\ B0Idle /\ PiIdle

NextFit == FitCall

SpecFit == InitFit /\ [][NextFit]_vars

\* ------------------------------------------------------------ B0: inputs
RawPhases == {-4000, 1000, 4000}

EchoTimes == {2, 5}

PhaseVolumes(n) == [1..n -> RawPhases]

\* The volume standing on the last axis where its content is never read.
FillerVolume(n) == [i \in 1..n |-> 1000]

\* Two volumes of every content, and one or three volumes.
B0PixelArrays(n) ==
    {<<v0, v1>> : v0 \in PhaseVolumes(n), v1 \in PhaseVolumes(n)}
    \cup {<<FillerVolume(n)>>,
          <<FillerVolume(n), FillerVolume(n), FillerVolume(n)>>}

\* Two echo times of every value (equal ones included), and one or three.
B0EchoLists ==
    {<<e0, e1>> : e0 \in EchoTimes, e1 \in EchoTimes}
    \cup {<<2>>, <<2, 5, 8>>}

B0Init ==
    /\ \E n \in 1..MaxPhaseVox :
          /\ b0_pixel_array \in B0PixelArrays(n)
          /\ b0_mask_arg \in {NoArray} \cup [1..n -> BOOLEAN]
    /\ b0_echo_list \in B0EchoLists
    /\ b0_unwrap \in BOOLEAN
    /\ b0 = B0Unset
    /\ b0_pc = "init"
    /\ b0_exc = ""

\* ----------------------------------------------------------- B0: actions
\* B0.__init__ up to the test of the counts: pixel_array, shape, n_te,
\* affine and mask are stored.
B0Stored ==
    [B0Unset EXCEPT
        !.attrs = {"pixel_array", "shape", "n_te", "affine", "mask"},
        !.n_te = Len(b0_pixel_array),
        !.mask = IF b0_mask_arg = NoArray
                 THEN [i \in 1..Len(b0_pixel_array[1]) |-> TRUE]
                 ELSE b0_mask_arg]

\* B0.__init__ with other counts than two volumes and two echo times.
B0Reject ==
    /\ b0_pc = "init"
    /\ ~TwoEchoes(Len(b0_pixel_array), b0_echo_list)
    /\ b0' = B0Stored
    /\ b0_pc' = "raised"
    /\ b0_exc' = "ValueError"
    /\ UNCHANGED <<b0_pixel_array, b0_echo_list, b0_mask_arg, b0_unwrap>>
    /\ UNCHANGED <<t2vars, fitvars, pivars>>

\* B0.__init__ with two volumes and two echo times: delta_te, the two
\* processed phases, their difference and the field map.
B0Compute ==
    /\ b0_pc = "init"
    /\ TwoEchoes(Len(b0_pixel_array), b0_echo_list)
    /\ LET dte == DeltaTe(b0_echo_list[1], b0_echo_list[2])
           m0  == masked_array(convert_to_pi_range(b0_pixel_array[1]),
                               b0_mask_arg)
           m1  == masked_array(convert_to_pi_range(b0_pixel_array[2]),
                               b0_mask_arg)
           p0  == IF b0_unwrap THEN unwrap_phase(m0) ELSE m0
           p1  == IF b0_unwrap THEN unwrap_phase(m1) ELSE m1
           pd  == PhaseDifference(p1, p0)
       IN  b0' = [B0Stored EXCEPT
                     !.attrs = @ \cup {"delta_te", "phase0", "phase1",
                                       "phase_difference", "b0_map"},
                     !.delta_te = dte,
                     !.phase0 = p0,
                     !.phase1 = p1,
                     !.phase_difference = pd,
                     !.b0_map = FieldMap(pd, dte)]
    /\ b0_pc' = "done"
    /\ UNCHANGED <<b0_exc, b0_pixel_array, b0_echo_list, b0_mask_arg,
                   b0_unwrap>>
    /\ UNCHANGED <<t2vars, fitvars, pivars>>

NextB0 ==
    \/ B0Reject
    \/ B0Compute

InitB0 == B0Init /\ T2Idle /\ FitIdle /\ PiIdle

SpecB0 == InitB0 /\ [][NextB0]_vars

\* ---------------------------------------------- convert_to_pi_range alone
\* Raw phase values: inside the margin, at it, just past it and far past it
\* on either side (0 and 4096 are the ends of an unsigned 12-bit range).
RawValues == {-4096, -3201, -3200, 0, 1000, 3200, 3201, 4096}

\* Raw phase arrays of up to MaxRawLen elements.
RawArrays == UNION {[1..n -> RawValues] : n \in 1..MaxRawLen}

PiInit ==
    /\ raw_array \in RawArrays
    /\ radians_array = <<>>
    /\ radians_again = <<>>
    /\ pi_pc = "init"

\* convert_to_pi_range(pixel_array)
PiCall ==
    /\ pi_pc = "init"
    /\ radians_array' = convert_to_pi_range(raw_array)
    /\ pi_pc' = "once"
    /\ UNCHANGED <<raw_array, radians_again>>
    /\ UNCHANGED <<t2vars, b0vars, fitvars>>

\* convert_to_pi_range applied to its own output
PiCallAgain ==
    /\ pi_pc = "once"
    /\ radians_again' = convert_to_pi_range(radians_array)
    /\ pi_pc' = "twice"
    /\ UNCHANGED <<raw_array, radians_array>>
    /\ UNCHANGED <<t2vars, b0vars, fitvars>>

InitPi == PiInit /\ T2Idle /\ B0Idle /\ FitIdle

NextPi ==
    \/ PiCall
    \/ PiCallAgain

SpecPi == InitPi /\ [][NextPi]_vars

\* ------------------------------------------------------ T2: properties
\* The caller's input passes both assertions of T2.__init__.
ValidInput ==
    /\ Len(pixel_array[1]) = Len(echo_list)
    /\ multithread_arg \in {"True", "False", "auto"}

\* Voxel i is left out: the caller's mask is false there or its signal
\* holds a NaN.
Excluded(i) ==
    \/ (mask_arg # NoArray /\ ~mask_arg[i])
    \/ \E t \in 1..Len(pixel_array[i]) : pixel_array[i][t].nan

\* The four values of map record m at position i.
At(m, i) == FitResult(m.t2_map[i], m.t2_err[i], m.m0_map[i], m.m0_err[i])

\* C1: in the parallel path, whatever the order in which the tasks complete,
\* the result fitted from voxel i's signal is at position i of the four maps
\* and nowhere else: until the scatter the maps are all zero, after it a
\* masked position holds its own voxel's fit and every other position zero.
C1_ParallelResultAtOwnVoxel ==
    self_multithread = "True" =>
        /\ pc \in {"par_for", "add_cb", "collect", "shutdown"} =>
              \A i \in 1..n_vox : At(maps, i) = ZeroFit
        /\ pc = "done" =>
              \A i \in 1..n_vox :
                  At(self_maps, i) =
                      IF self_mask[i] THEN fit_signal(pixel_array[i])
                      ELSE ZeroFit

\* C1 witness: a finished parallel run whose second task completed first
\* and whose two voxels have different fits.
C1_Witness ==
    /\ pc = "done"
    /\ self_multithread = "True"
    /\ Len(completion) >= 2
    /\ completion[1] = 2
    /\ At(self_maps, idx.vals[1]) # At(self_maps, idx.vals[2])

\* C2: the sequential and the parallel construction on the same input end
\* the same way, with identical maps.
C2_SequentialParallelSameOutcome ==
    (pc \in {"done", "raised"} /\ prev # NoOutcome) => Outcome = prev

\* C3: with multithread='auto' the mode is parallel exactly when more than
\* 20 voxels are masked for fitting.
C3_AutoByMaskedCount ==
    (multithread_arg = "auto" /\ self_multithread # "unset") =>
        (self_multithread = "True"
            <=> Cardinality({i \in 1..n_vox : self_mask[i]}) > AutoThreshold)

\* C4: on valid input the constructor never raises, and once it is done the
\* four maps have the spatial shape.
C4_ValidInputCompletes ==
    ValidInput =>
        /\ pc # "raised"
        /\ pc = "done" =>
              /\ Len(self_maps.t2_map) = n_vox
              /\ Len(self_maps.t2_err) = n_vox
              /\ Len(self_maps.m0_map) = n_vox
              /\ Len(self_maps.m0_err) = n_vox

\* C5: after T2 completes, in either mode, every excluded position holds 0
\* in all four maps.
C5_ExcludedVoxelsAreZero ==
    pc = "done" =>
        \A i \in 1..n_vox : Excluded(i) => At(self_maps, i) = ZeroFit

\* C5 witness: a finished sequential run with a voxel the caller masked in
\* but whose signal holds a NaN, next to a voxel with a non-zero fit.
C5_Witness ==
    /\ pc = "done"
    /\ self_multithread = "False"
    /\ mask_arg # NoArray
    /\ \E i, j \in 1..n_vox :
          /\ mask_arg[i]
          /\ Excluded(i)
          /\ At(self_maps, j) # ZeroFit

\* C6: the mask used for fitting is all-true without a caller mask and the
\* caller's mask otherwise, except that a position whose time series holds
\* a NaN is false.
C6_MaskRule ==
    self_mask # NoArray =>
        /\ Len(self_mask) = n_vox
        /\ \A i \in 1..n_vox :
              self_mask[i] =
                  IF \E t \in 1..Len(pixel_array[i]) : pixel_array[i][t].nan
                  THEN FALSE
                  ELSE (mask_arg = NoArray \/ mask_arg[i])

\* C6 witness: a caller mask that is true at a NaN voxel (forced false) and
\* true at a numeric voxel (kept).
C6_Witness ==
    /\ self_mask # NoArray
    /\ mask_arg # NoArray
    /\ \E i, j \in 1..n_vox :
          /\ mask_arg[i] /\ ~self_mask[i]
          /\ mask_arg[j] /\ self_mask[j]

\* C8: when the echo count differs from the last axis, or multithread is
\* not True, False or 'auto', the constructor raises before any fitting
\* work: no fit call, no task, no progress bar, no map.
C8_InvalidInputFailsFast ==
    ~ValidInput =>
        /\ pc \in {"init", "raised"}
        /\ pc = "raised" => exc = "AssertionError"
        /\ n_fit = 0
        /\ futures = <<>>
        /\ progress = NoProgress
        /\ maps = NoMaps
        /\ self_maps = NoMaps

\* C8 witness: the constructor has raised on an echo-count mismatch with an
\* otherwise valid mode.
C8_Witness ==
    /\ pc = "raised"
    /\ exc = "AssertionError"
    /\ Len(pixel_array[1]) # Len(echo_list)
    /\ multithread_arg = "True"

\* --------------------------------------------- __fit_signal__: properties
\* C7: __fit_signal__ returns four zeros when the optimizer raises a
\* convergence failure or the fitted T2 is at or above upper_bound - 1 = 699,
\* and otherwise the fitted T2 and M0 with the square roots of the covariance
\* diagonal as errors; no result is partly zeroed.
C7_FitPolicy ==
    fit_out.kind = "returned" =>
        LET r == fit_out.value
        IN  /\ UpperBoundT2 - 1 = 699
            /\ IF opt.kind = "RuntimeError"
               THEN r = ZeroFit
               ELSE IF opt.popt[1] >= 699
               THEN r = ZeroFit
               ELSE /\ r.t2 = opt.popt[1]
                    /\ r.m0 = opt.popt[2]
                    /\ r.t2_err >= 0 /\ r.t2_err * r.t2_err = opt.pcov[1][1]
                    /\ r.m0_err >= 0 /\ r.m0_err * r.m0_err = opt.pcov[2][2]

\* C7 witness: a converged fit with T2 exactly 699 and a non-zero M0 and
\* covariance has been returned as four zeros.
C7_Witness ==
    /\ fit_out.kind = "returned"
    /\ opt.kind = "ok"
    /\ opt.popt[1] = 699
    /\ opt.popt[2] # 0
    /\ opt.pcov[1][1] # 0
    /\ fit_out.value = ZeroFit

\* ------------------------------------------------------ B0: properties
B0Outputs == {"delta_te", "phase0", "phase1", "phase_difference", "b0_map"}

\* C9: B0 computes a field map only for exactly two phase volumes and
\* exactly two echo times; every other combination of counts raises
\* ValueError and leaves none of delta_te, phase0, phase1, phase_difference
\* and b0_map.
C9_ExactlyTwoEchoes ==
    LET two == Len(b0_pixel_array) = 2 /\ Len(b0_echo_list) = 2
    IN  /\ b0_pc = "done" => (two /\ B0Outputs \subseteq b0.attrs)
        /\ b0_pc = "raised" =>
              /\ ~two
              /\ b0_exc = "ValueError"
              /\ b0.attrs \cap B0Outputs = {}
              /\ b0.b0_map = NoArray
        /\ b0_pc = "init" => b0.attrs = {}

\* C9 witness: three volumes with three echo times (the counts agree but
\* are not two) have been refused.
C9_Witness ==
    /\ b0_pc = "raised"
    /\ Len(b0_pixel_array) = 3
    /\ Len(b0_echo_list) = 3

\* C10: for two volumes and two echo times, delta_te is the absolute echo
\* difference times 0.001, each phase is the range-normalized volume,
\* unwrapped only when unwrap is true, phase_difference is phase1 - phase0
\* element by element and b0_map is phase_difference / (2 pi delta_te)
\* element by element (an element masked in a phase is masked in both
\* results; the quotient is to the fixed-point resolution).
C10_FieldMapFormula ==
    b0_pc = "done" =>
        LET e0  == b0_echo_list[1]
            e1  == b0_echo_list[2]
            n0  == masked_array(convert_to_pi_range(b0_pixel_array[1]),
                                b0_mask_arg)
            n1  == masked_array(convert_to_pi_range(b0_pixel_array[2]),
                                b0_mask_arg)
            den == 2 * Pi * b0.delta_te
        IN  /\ b0.delta_te = (IF e1 >= e0 THEN e1 - e0 ELSE e0 - e1) * MsToSeconds
            /\ b0.phase0 = IF b0_unwrap THEN unwrap_phase(n0) ELSE n0
            /\ b0.phase1 = IF b0_unwrap THEN unwrap_phase(n1) ELSE n1
            /\ \A v \in 1..Len(b0.phase0) :
                  LET valid == ~b0.phase0[v].masked /\ ~b0.phase1[v].masked
                      pd    == b0.phase_difference[v]
                      fm    == b0.b0_map[v]
                  IN  /\ pd.masked = ~valid
                      /\ valid =>
                            pd.data = b0.phase1[v].data - b0.phase0[v].data
                      /\ (valid /\ b0.delta_te # 0) =>
                            /\ ~fm.masked
                            /\ fm.data * den - pd.data * HzScale < den
                            /\ pd.data * HzScale - fm.data * den < den
                            /\ (pd.data >= 0) = (fm.data >= 0)
                                  \/ fm.data = 0

\* C10 witness: a field map from a rescaled and unwrapped second volume with
\* a non-zero phase difference and a non-zero field value at a valid voxel.
C10_Witness ==
    /\ b0_pc = "done"
    /\ b0_unwrap
    /\ b0.delta_te # 0
    /\ convert_to_pi_range(b0_pixel_array[2]) # b0_pixel_array[2]
    /\ \E v \in 1..Len(b0.b0_map) :
          /\ ~b0.b0_map[v].masked
          /\ b0.phase_difference[v].data # 0
          /\ b0.b0_map[v].data # 0
          /\ b0.phase1[v].data # convert_to_pi_range(b0_pixel_array[2])[v]

\* The voxels the caller's mask argument does not mask out.
Unmasked(v) == b0_mask_arg = NoArray \/ ~b0_mask_arg[v]

\* B0 was given the same phase volume twice.
IdenticalVolumes == b0_pixel_array[1] = b0_pixel_array[2]

\* C11 as stated: with two identical phase volumes b0_map is a valid zero at
\* every voxel that is not masked out, for every pair of echo times (equal
\* ones included), with or without unwrapping.
C11_IdenticalVolumesZeroMap ==
    (b0_pc = "done" /\ IdenticalVolumes) =>
        \A v \in 1..Len(b0.b0_map) :
            Unmasked(v) => (~b0.b0_map[v].masked /\ b0.b0_map[v].data = 0)

\* C11 amended: with two identical phase volumes and two different echo
\* times b0_map is a valid zero at every voxel that is not masked out, with
\* or without unwrapping; with two equal echo times (delta_te = 0) every
\* voxel of b0_map is masked, the division by zero leaving no valid value.
C11_IdenticalVolumesZeroUnlessEqualEchoes ==
    (b0_pc = "done" /\ IdenticalVolumes) =>
        \A v \in 1..Len(b0.b0_map) :
            /\ b0.phase_difference[v].masked = ~Unmasked(v)
            /\ Unmasked(v) => b0.phase_difference[v].data = 0
            /\ (Unmasked(v) /\ b0_echo_list[1] # b0_echo_list[2]) =>
                  (~b0.b0_map[v].masked /\ b0.b0_map[v].data = 0)
            /\ b0_echo_list[1] = b0_echo_list[2] => b0.b0_map[v].masked

\* C11 witness: the same volume twice, rescaled and unwrapped, with two
\* different echo times, a masked voxel and a valid zero in the field map.
C11_Witness ==
    /\ b0_pc = "done"
    /\ IdenticalVolumes
    /\ b0_unwrap
    /\ b0_echo_list[1] # b0_echo_list[2]
    /\ convert_to_pi_range(b0_pixel_array[1]) # b0_pixel_array[1]
    /\ \E v \in 1..Len(b0.b0_map) : b0.phase0[v].data # 0 /\ ~Unmasked(v)
    /\ \E v \in 1..Len(b0.b0_map) :
          /\ Unmasked(v)
          /\ b0.phase0[v].data # 0
          /\ ~b0.b0_map[v].masked
          /\ b0.b0_map[v].data = 0

\* The array reaches past the 3.2 margin above or below.
OutsideEnvelope(a) == Amax(a) > Margin \/ Amin(a) < -Margin

\* C12 as stated: the output of convert_to_pi_range lies inside the
\* [-pi, pi] envelope (within the 3.2 margin); an input reaching outside the
\* envelope on either side is rescaled linearly with its minimum on -pi and
\* its maximum on pi, and an input inside the envelope is returned unchanged.
C12_OutputInsideEnvelope ==
    pi_pc \in {"once", "twice"} =>
        /\ ~OutsideEnvelope(radians_array)
        /\ OutsideEnvelope(raw_array) =>
              \A i \in 1..Len(raw_array) :
                 radians_array[i] =
                    Quot(2 * Pi * (raw_array[i] - Amin(raw_array)),
                         Amax(raw_array) - Amin(raw_array)) - Pi
        /\ ~OutsideEnvelope(raw_array) => radians_array = raw_array

\* The test of tools.py:23: the array reaches past the margin on both sides.
OutsideBothSides(a) == Amax(a) > Margin /\ Amin(a) < -Margin

\* C13: convert_to_pi_range is idempotent: applied to its own output it
\* returns that output, for every input array (rescaled or not), and a
\* rescaled output does not meet the rescaling test again.
C13_Idempotent ==
    pi_pc = "twice" =>
        /\ radians_again = radians_array
        /\ OutsideBothSides(raw_array) => ~OutsideBothSides(radians_array)

\* C13 witness: a second application to an array the first one rescaled.
C13_Witness ==
    /\ pi_pc = "twice"
    /\ OutsideBothSides(raw_array)
    /\ radians_array # raw_array
    /\ Amax(radians_array) = Pi
    /\ Amin(radians_array) = -Pi
    /\ \E i \in 1..Len(radians_array) :
          radians_array[i] \notin {-Pi, 0, Pi}
    /\ radians_again = radians_array

\* The element of a masked array holds a valid (not masked-out) value.
Valid(a, v) == ~a[v].masked

\* C14 as stated: in B0 the mask marks the voxels to fit: phase0, phase1,
\* phase_difference and (for two different echo times) b0_map are valid
\* exactly at the voxels where self.mask is true, and an explicit all-true
\* mask leaves every voxel valid, as no mask does.
C14_MaskMarksVoxelsToFit ==
    b0_pc = "done" =>
        \A v \in 1..Len(b0.mask) :
            /\ Valid(b0.phase0, v) = b0.mask[v]
            /\ Valid(b0.phase1, v) = b0.mask[v]
            /\ Valid(b0.phase_difference, v) = b0.mask[v]
            /\ b0.delta_te # 0 => (Valid(b0.b0_map, v) = b0.mask[v])
            /\ (\A w \in 1..Len(b0.mask) : b0.mask[w]) =>
                  Valid(b0.phase0, v)

\* C15 as stated: in both modes the bar gets one increment per masked
\* voxel, every increment arrives while the bar is open, and when the fit
\* has returned the bar's count is the number of masked voxels.
C15_OneIncrementPerMaskedVoxel ==
    /\ progress.late = 0
    /\ progress.n <= Len(Argwhere(self_mask))
    /\ pc = "done" => progress.n = Len(Argwhere(self_mask))

\* C16 as stated: the constructor leaves the caller's pixel_array,
\* echo_list and mask array as they were at the call; here for the mask
\* array once the constructor has returned or raised.
C16_CallerMaskUntouched ==
    pc \in {"done", "raised"} => caller_mask = mask_arg

====
